---------------------------- MODULE Spec2Model ----------------------------
(***************************************************************************)
(* The Account REST service of service/routes.py as a state machine.       *)
(*                                                                         *)
(* State: the datastore (the accounts table and its id sequence), and the  *)
(* request line / headers and the response of the request handled last.    *)
(* One action per HTTP request the service can receive on /accounts and    *)
(* /accounts/<id>; the JSON body of a request is the action's input.       *)
(*                                                                         *)
(* service/models.py (Account) and service/common (status codes, error     *)
(* handlers) are not among the sources at hand: Account's methods are      *)
(* modelled from the specification's section 4.2.                          *)
(***************************************************************************)
EXTENDS Integers, Sequences, FiniteSets, TLC

VARIABLES
    accounts,   \* the accounts table: id -> row
    next_id,    \* the next value of the table's id sequence
    req,        \* request line and headers of the last request
    resp        \* the response to it

vars == <<accounts, next_id, req, resp>>

\* The number of rows the model lets the table grow to.
MaxAccounts == 2

---------------------------------------------------------------------------
(* Python / JSON values, tagged with their type.                           *)

Null == [type |-> "null"]
Str(s) == [type |-> "string", val |-> s]
Num(n) == [type |-> "number", val |-> n]
Obj(f) == [type |-> "object", members |-> f]
Arr(s) == [type |-> "array", items |-> s]
Date(y, m, d) == [type |-> "date", year |-> y, month |-> m, day |-> d]

IsStr(v) == v.type = "string"
IsDict(v) == v.type = "object"
Keys(v) == DOMAIN v.members

\* Python truthiness: None, "", 0, {} and [] are false.
Truthy(v) ==
    CASE v.type = "null" -> FALSE
      [] v.type = "string" -> v.val # ""
      [] v.type = "number" -> v.val # 0
      [] v.type = "object" -> DOMAIN v.members # {}
      [] v.type = "array" -> v.items # <<>>
      [] OTHER -> TRUE

\* datetime.date.isoformat: YYYY-MM-DD, month and day zero-padded.
Pad2(n) == IF n < 10 THEN "0" \o ToString(n) ELSE ToString(n)
isoformat(d) == Str(ToString(d.year) \o "-" \o Pad2(d.month) \o "-" \o Pad2(d.day))

\* The dates of the model: the day the requests are served, and the date a
\* client submits.
Today == Date(2026, 11, 4)
Joined == Date(2020, 2, 9)
Dates == {Today, Joined}

\* date.fromisoformat: the date an ISO string denotes, if it denotes one.
IsIsoDate(v) == IsStr(v) /\ \E d \in Dates : isoformat(d) = v
fromisoformat(v) == CHOOSE d \in Dates : isoformat(d) = v

---------------------------------------------------------------------------
(* Requests.                                                               *)

JSON == "application/json"
ContentTypes == {Str(JSON), Str("test/html"), Null}

\* The path ids of the model: every id the table can hold and one more.
PathIds == 1..(MaxAccounts + 1)

AccountJson ==
    Obj([id |-> Null, name |-> Str("Alice"), email |-> Str("alice@example.com"),
         address |-> Str("1 Main St"), phone_number |-> Str("555-0100"),
         date_joined |-> isoformat(Joined)])
UpdatedJson == Obj([name |-> Str("Updated Name"), email |-> Str("updated@example.com")])
NameOnlyJson == Obj([name |-> Str("Alice")])
EmailOnlyJson == Obj([email |-> Str("updated@example.com")])
NullNameJson == Obj([name |-> Null])
UnknownOnlyJson == Obj([id |-> Num(99), nickname |-> Str("al")])
MixedJson == Obj([name |-> Str("Updated Name"), id |-> Num(99), nickname |-> Str("al")])
EmptyJson == Obj(<<>>)
ArrayJson == Arr(<<Str("x")>>)

Bodies ==
    {AccountJson, UpdatedJson, NameOnlyJson, EmailOnlyJson, NullNameJson,
     UnknownOnlyJson, MixedJson, EmptyJson, ArrayJson, Null}

NoRequest == [method |-> "", path |-> "", id |-> 0, ctype |-> Null]
NoResponse == [status |-> 0, headers |-> {}, body |-> Null, message |-> <<>>]

Request(method, path, id, ctype) ==
    [method |-> method, path |-> path, id |-> id, ctype |-> ctype]

---------------------------------------------------------------------------
(* service.common.status                                                   *)

HTTP_200_OK == 200
HTTP_201_CREATED == 201
HTTP_400_BAD_REQUEST == 400
HTTP_404_NOT_FOUND == 404
HTTP_415_UNSUPPORTED_MEDIA_TYPE == 415

\* flask.abort(status, description)
abort(status, message) ==
    [status |-> status, headers |-> {}, body |-> Null, message |-> message]

---------------------------------------------------------------------------
(* Account (service/models.py), from the specification.                    *)

\* An optional attribute, when given, is a string or null.
OptionalString(data, key) ==
    key \in Keys(data) => (IsStr(data.members[key]) \/ data.members[key] = Null)

\* Account.deserialize succeeds: the required keys are there, all of the
\* right type.
deserialize_ok(data) ==
    /\ IsDict(data)
    /\ {"name", "email"} \subseteq Keys(data)
    /\ IsStr(data.members["name"])
    /\ IsStr(data.members["email"])
    /\ OptionalString(data, "address")
    /\ OptionalString(data, "phone_number")
    /\ "date_joined" \in Keys(data) =>
           (data.members["date_joined"] = Null \/ IsIsoDate(data.members["date_joined"]))

Get(data, key) == IF key \in Keys(data) THEN data.members[key] ELSE Null

\* A new Account(): no attribute set.
NewAccount ==
    [id |-> Null, name |-> Null, email |-> Null, address |-> Null,
     phone_number |-> Null, date_joined |-> Null]

\* Account.deserialize: the attributes from the mapping; the id is not taken
\* from it, and date_joined defaults to the day of creation.
deserialize(account, data) ==
    [account EXCEPT
        !.name = data.members["name"],
        !.email = data.members["email"],
        !.address = Get(data, "address"),
        !.phone_number = Get(data, "phone_number"),
        !.date_joined = IF Truthy(Get(data, "date_joined"))
                        THEN fromisoformat(data.members["date_joined"])
                        ELSE Today]

\* Account.serialize: all attributes, the date as an ISO string.
serialize(account) ==
    Obj([id |-> account.id,
         name |-> account.name,
         email |-> account.email,
         address |-> account.address,
         phone_number |-> account.phone_number,
         date_joined |-> isoformat(account.date_joined)])

\* Account.find: the row with this id, or None.
find(table, id) == IF id \in DOMAIN table THEN table[id] ELSE Null

\* The table's columns are typed: a value written to the date column is
\* stored as a date.
Column(key, v) == IF key = "date_joined" /\ IsIsoDate(v) THEN fromisoformat(v) ELSE v

Row(account) ==
    [key \in DOMAIN account |-> Column(key, account[key])]

\* Account.create: insert the row under the next id of the sequence.
create(table, account) ==
    table @@ (next_id :> Row([account EXCEPT !.id = Num(next_id)]))

\* Account.update: the in-memory attributes over the row the object was
\* loaded from.
update(table, row_id, account) ==
    [table EXCEPT ![row_id] = Row(account)]

---------------------------------------------------------------------------
(* service/routes.py                                                       *)

\* Mutant: a request without a Content-Type header passes the check.
check_content_type_lax(content_type, media_type) ==
    ~Truthy(content_type) \/ content_type = Str(media_type)

\* check_content_type returns (rather than aborting with 415).
check_content_type(content_type, media_type) ==
    Truthy(content_type) /\ content_type = Str(media_type)

UnsupportedMediaType(media_type) ==
    abort(HTTP_415_UNSUPPORTED_MEDIA_TYPE, <<"Content-Type must be ", media_type>>)

\* The error handler for DataValidationError.
BadRequest == abort(HTTP_400_BAD_REQUEST, <<"Invalid Account">>)

\* A request the URL map has a rule for, but not with this method.
MethodNotAllowed == abort(405, <<"Method Not Allowed">>)

location_url == "/"

\* Mutant: the created record is answered with 200.
create_response_ok(account) ==
    [status |-> HTTP_200_OK,
     headers |-> {<<"Location", location_url>>},
     body |-> serialize(account),
     message |-> <<>>]

create_response(account) ==
    [status |-> HTTP_201_CREATED,
     headers |-> {<<"Location", location_url>>},
     body |-> serialize(account),
     message |-> <<>>]

\* Mutant: the row is inserted before the body is deserialized.
create_accounts_create_first(ctype, data) ==
    /\ req' = Request("POST", "/accounts", 0, ctype)
    /\ IF ~check_content_type(ctype, JSON)
       THEN /\ resp' = UnsupportedMediaType(JSON)
            /\ UNCHANGED <<accounts, next_id>>
       ELSE /\ next_id <= MaxAccounts
            /\ accounts' = create(accounts, IF deserialize_ok(data)
                                            THEN deserialize(NewAccount, data)
                                            ELSE NewAccount)
            /\ next_id' = next_id + 1
            /\ resp' = IF deserialize_ok(data)
                       THEN create_response(accounts'[next_id])
                       ELSE BadRequest

\* POST /accounts
create_accounts(ctype, data) ==
    /\ req' = Request("POST", "/accounts", 0, ctype)
    /\ IF ~check_content_type(ctype, JSON)
       THEN /\ resp' = UnsupportedMediaType(JSON)
            /\ UNCHANGED <<accounts, next_id>>
       ELSE IF ~deserialize_ok(data)
       THEN /\ resp' = BadRequest
            /\ UNCHANGED <<accounts, next_id>>
       ELSE /\ next_id <= MaxAccounts
            /\ accounts' = create(accounts, deserialize(NewAccount, data))
            /\ next_id' = next_id + 1
            /\ resp' = create_response(accounts'[next_id])

\* GET /accounts: the URL map holds /accounts for POST only.
list_accounts ==
    /\ req' = Request("GET", "/accounts", 0, Null)
    /\ resp' = MethodNotAllowed
    /\ UNCHANGED <<accounts, next_id>>

\* Mutant: the 404 message does not name the id.
get_account_no_id(account_id) ==
    /\ req' = Request("GET", "/accounts/<id>", account_id, Null)
    /\ LET account == find(accounts, account_id) IN
         resp' = IF account = Null
                 THEN abort(HTTP_404_NOT_FOUND, <<"Account could not be found.">>)
                 ELSE [status |-> HTTP_200_OK, headers |-> {},
                       body |-> serialize(account), message |-> <<>>]
    /\ UNCHANGED <<accounts, next_id>>

\* GET /accounts/<id>
get_account(account_id) ==
    /\ req' = Request("GET", "/accounts/<id>", account_id, Null)
    /\ LET account == find(accounts, account_id) IN
         resp' = IF account = Null
                 THEN abort(HTTP_404_NOT_FOUND,
                            <<"Account with id [", ToString(account_id),
                              "] could not be found.">>)
                 ELSE [status |-> HTTP_200_OK, headers |-> {},
                       body |-> serialize(account), message |-> <<>>]
    /\ UNCHANGED <<accounts, next_id>>

valid_fields == <<"name", "email", "address", "phone_number", "date_joined">>

Range(s) == {s[i] : i \in DOMAIN s}

\* not account_data or not isinstance(account_data, dict)
invalid_json(account_data) == ~Truthy(account_data) \/ ~IsDict(account_data)

\* Mutant: the check for a recognized field is left out.
no_valid_fields_never(account_data) == FALSE

\* not any(key in account_data for key in valid_fields)
no_valid_fields(account_data) ==
    ~\E key \in Range(valid_fields) : key \in Keys(account_data)

\* Mutant: every key of the body is set, not only the whitelisted ones.
set_fields_any_key(account, account_data) ==
    [key \in DOMAIN account |->
        IF key \in Keys(account_data) THEN account_data.members[key] ELSE account[key]]

\* for key in valid_fields: if key in account_data: setattr(account, key, ...)
set_fields(account, account_data) ==
    [key \in DOMAIN account |->
        IF key \in Range(valid_fields) /\ key \in Keys(account_data)
        THEN account_data.members[key]
        ELSE account[key]]

\* PUT /accounts/<id>
update_account(account_id, ctype, account_data) ==
    /\ req' = Request("PUT", "/accounts/<id>", account_id, ctype)
    /\ next_id' = next_id
    /\ LET account == find(accounts, account_id) IN
         IF account = Null
         THEN /\ resp' = abort(HTTP_404_NOT_FOUND,
                               <<"Account with id [", ToString(account_id), "] not found.">>)
              /\ accounts' = accounts
         ELSE IF ~check_content_type(ctype, JSON)
         THEN /\ resp' = UnsupportedMediaType(JSON)
              /\ accounts' = accounts
         ELSE IF invalid_json(account_data)
         THEN /\ resp' = abort(HTTP_400_BAD_REQUEST, <<"Invalid JSON data provided">>)
              /\ accounts' = accounts
         ELSE IF no_valid_fields(account_data)
         THEN /\ resp' = abort(HTTP_400_BAD_REQUEST, <<"No valid fields provided for update">>)
              /\ accounts' = accounts
         ELSE /\ accounts' = update(accounts, account_id, set_fields(account, account_data))
              /\ resp' = [status |-> HTTP_200_OK, headers |-> {},
                          body |-> serialize(accounts'[account_id]), message |-> <<>>]

\* DELETE /accounts/<id>: the URL map holds /accounts/<id> for GET and PUT only.
delete_account(account_id) ==
    /\ req' = Request("DELETE", "/accounts/<id>", account_id, Null)
    /\ resp' = MethodNotAllowed
    /\ UNCHANGED <<accounts, next_id>>

---------------------------------------------------------------------------

Init ==
    /\ accounts = <<>>
    /\ next_id = 1
    /\ req = NoRequest
    /\ resp = NoResponse

Next ==
    \/ \E ctype \in ContentTypes, data \in Bodies : create_accounts(ctype, data)
    \/ list_accounts
    \/ \E id \in PathIds : get_account(id)
    \/ \E id \in PathIds, ctype \in ContentTypes, data \in Bodies :
           update_account(id, ctype, data)
    \/ \E id \in PathIds : delete_account(id)

Spec == Init /\ [][Next]_vars

---------------------------------------------------------------------------
(* Properties.  A step is named by the request that takes it: a formula    *)
(* [][\A data : create_accounts(ct, data) => Q]_vars says that every step   *)
(* that handles such a request satisfies Q.  The request line the step     *)
(* records (req') narrows the ids and content types to look at.            *)

ThisId == PathIds \cap {req'.id}
ThisType == ContentTypes \cap {req'.ctype}

Whitelist == {"name", "email", "address", "phone_number", "date_joined"}

Stored == DOMAIN accounts

\* A body that holds a valid account: an object with a name and an email,
\* strings both, whose optional attributes are strings or null and whose
\* date, if any, is an ISO date.
ValidAccountBody(data) ==
    /\ IsDict(data)
    /\ \A key \in {"name", "email"} : key \in Keys(data) /\ IsStr(data.members[key])
    /\ \A key \in {"address", "phone_number"} \cap Keys(data) :
           IsStr(data.members[key]) \/ data.members[key] = Null
    /\ "date_joined" \in Keys(data) => IsIsoDate(data.members["date_joined"])

\* C1: a Create with Content-Type application/json and a valid account is
\* answered 201 with a Location header, stores exactly one new record and
\* leaves the others alone, and the record returned is the one stored, with
\* every submitted name, email, address, phone_number and date_joined.
C1_CreateReturnsSubmitted ==
    [][\A data \in Bodies :
        (create_accounts(Str(JSON), data) /\ ValidAccountBody(data)) =>
            /\ resp'.status = 201
            /\ \E h \in resp'.headers : h[1] = "Location"
            /\ Cardinality(DOMAIN accounts' \ Stored) = 1
            /\ \A id \in Stored : id \in DOMAIN accounts' /\ accounts'[id] = accounts[id]
            /\ \A id \in DOMAIN accounts' \ Stored : resp'.body = serialize(accounts'[id])
            /\ \A key \in Whitelist \cap Keys(data) :
                   resp'.body.members[key] = data.members[key]
      ]_vars

\* A second account was created from a body that carries all five fields.
C1_Witness ==
    /\ req.method = "POST"
    /\ resp.status = 201
    /\ Cardinality(Stored) = 2
    /\ resp.body.members.address = Str("1 Main St")
    /\ resp.body.members.date_joined = Str("2020-02-09")

\* C2: a successful Update changes exactly the whitelisted fields present
\* in the body: the record's id (also when the body carries an "id" or an
\* unrecognized key), its other fields and every other record stay as they
\* were, and the record as stored, which is what a Read returns, holds the
\* new values.
C2_UpdateChangesOnlyGivenFields ==
    [][\A id \in ThisId, data \in Bodies :
        (update_account(id, Str(JSON), data) /\ resp'.status = 200) =>
            /\ DOMAIN accounts' = Stored
            /\ \A other \in Stored \ {id} : accounts'[other] = accounts[other]
            /\ accounts'[id].id = accounts[id].id
            /\ \A key \in Whitelist :
                   IF key \in Keys(data)
                   THEN serialize(accounts'[id]).members[key] = data.members[key]
                   ELSE accounts'[id][key] = accounts[id][key]
            /\ resp'.body = serialize(accounts'[id])
      ]_vars

\* One of two accounts, created with all fields, has had its name and email
\* updated and has kept its address; the other account is as created.
C2_Witness ==
    /\ req.method = "PUT"
    /\ resp.status = 200
    /\ Cardinality(Stored) = 2
    /\ req.id \in Stored
    /\ accounts[req.id].name = Str("Updated Name")
    /\ accounts[req.id].email = Str("updated@example.com")
    /\ accounts[req.id].address = Str("1 Main St")
    /\ \E other \in Stored \ {req.id} : accounts[other].name = Str("Alice")

\* C3: a Delete of an existing account is answered 204 and removes the
\* record, so that a later Read of the id is answered 404.
C3_DeleteRemoves ==
    [][\A id \in PathIds :
        (delete_account(id) /\ id \in Stored) =>
            /\ resp'.status = 204
            /\ id \notin DOMAIN accounts'
      ]_vars

\* C4: List is answered 200 with an array of exactly the stored records.
C4_ListReturnsAll ==
    [][list_accounts =>
            /\ resp'.status = 200
            /\ resp'.body.type = "array"
            /\ Len(resp'.body.items) = Cardinality(Stored)
      ]_vars

\* C5 as stated: every Create or Update whose Content-Type is absent or
\* not application/json is answered 415, whatever the body and whether or
\* not the id exists, and the datastore is unchanged.
C5_GuardBeforeAnyLogic ==
    [][\A ctype \in ThisType \ {Str(JSON)}, data \in Bodies :
        /\ create_accounts(ctype, data) =>
               (resp'.status = 415 /\ accounts' = accounts)
        /\ \A id \in ThisId : update_account(id, ctype, data) =>
               (resp'.status = 415 /\ accounts' = accounts)
      ]_vars

\* C5 amended: such a Create is answered 415; such an Update is answered
\* 415 when the id exists and 404 when it does not; the datastore is
\* unchanged in every case.
C5_GuardAfterLookup ==
    [][\A ctype \in ThisType \ {Str(JSON)}, data \in Bodies :
        /\ create_accounts(ctype, data) =>
               (resp'.status = 415 /\ accounts' = accounts)
        /\ \A id \in ThisId : update_account(id, ctype, data) =>
               /\ resp'.status = (IF id \in Stored THEN 415 ELSE 404)
               /\ accounts' = accounts
      ]_vars

\* An Update of a stored account was refused for its content type.
C5_Witness ==
    /\ req.method = "PUT"
    /\ req.ctype = Str("test/html")
    /\ req.id \in Stored
    /\ resp.status = 415

\* C6: a Create with Content-Type application/json whose body lacks name
\* or lacks email is answered 400 and stores nothing.
C6_CreateIncompleteRejected ==
    [][\A data \in Bodies :
        (/\ create_accounts(Str(JSON), data)
         /\ IsDict(data)
         /\ ~({"name", "email"} \subseteq Keys(data))) =>
            /\ resp'.status = 400
            /\ accounts' = accounts
      ]_vars

\* A Create was refused with 400 while an account is stored.
C6_Witness ==
    /\ req.method = "POST"
    /\ req.ctype = Str(JSON)
    /\ resp.status = 400
    /\ Stored # {}

\* C7: an Update of an existing account with Content-Type application/json
\* whose body is an empty object, is no object, or holds only keys outside
\* the whitelist is answered 400 and changes no record.
C7_UpdateWithoutFieldsRejected ==
    [][\A id \in ThisId, data \in Bodies :
        (/\ update_account(id, Str(JSON), data)
         /\ id \in Stored
         /\ (~IsDict(data) \/ Keys(data) \cap Whitelist = {})) =>
            /\ resp'.status = 400
            /\ accounts' = accounts
      ]_vars

\* An Update of a stored account was refused because its body named no
\* whitelisted field.
C7_Witness ==
    /\ req.method = "PUT"
    /\ req.ctype = Str(JSON)
    /\ req.id \in Stored
    /\ resp.status = 400
    /\ resp.message = <<"No valid fields provided for update">>

\* C8: a Read of an id with no stored record is answered 404 with a
\* message that contains the id, a Read of a stored id is answered 200
\* with that record, and no Read changes the datastore.
C8_ReadFindsOrNotFound ==
    [][\A id \in PathIds :
        get_account(id) =>
            /\ accounts' = accounts
            /\ IF id \in Stored
               THEN resp'.status = 200 /\ resp'.body = serialize(accounts[id])
               ELSE /\ resp'.status = 404
                    /\ \E i \in DOMAIN resp'.message : resp'.message[i] = ToString(id)
      ]_vars

\* A Read of an id that is not stored was answered 404 while another
\* account is stored.
C8_Witness ==
    /\ req.method = "GET"
    /\ req.id \notin Stored
    /\ Stored # {}
    /\ resp.status = 404

\* C9: the Location header of a 201 response is the path of the account
\* just created, /accounts/{id}.
C9_LocationNamesAccount ==
    resp.status = 201 =>
        <<"Location", "/accounts/" \o ToString(resp.body.members.id.val)>> \in resp.headers

\* C10: the name and the email of every stored account are strings.
C10_NameAndEmailAreStrings ==
    \A id \in Stored : IsStr(accounts[id].name) /\ IsStr(accounts[id].email)

=============================================================================
